---------------------------- MODULE Spec2Model ----------------------------
(***************************************************************************)
(* Kinematic rock-slope failure evaluation (rockinematics, evaluate.py).   *)
(*                                                                         *)
(* The containment predicates line_in_cone and line_above_plane and the    *)
(* three classifiers planarFailure, wedgeFailure and topplingFailure are   *)
(* translated from evaluate.py.  Angles are whole degrees; trigonometry is *)
(* fixed point over a sine table (unit Scale).  A float that is NaN is the *)
(* value NaN, and comparisons with it are false, as in IEEE arithmetic.    *)
(* The stereonet library (st) and the envelope provider (env) are not     *)
(* part of evaluate.py; they are modelled from their contracts.            *)
(***************************************************************************)
EXTENDS Integers, Sequences, FiniteSets, TLC

VARIABLES
    args,   \* the arguments of the call: a classifier's (sstr, sdip, jfriction,
            \* jstr, jdip, to_plot) or a containment predicate's
    call,   \* the function that was called; "none" before the call
    ret     \* what the call produced: a mask or verdict, or an exception

vars == <<args, call, ret>>

(***************************************************************************)
(* Bounds of the model.                                                    *)
(***************************************************************************)
\* the most joints in a call of the specification Spec
MaxJoints == 3

\* the most joints in a call of the specification SpecWedge
MaxWedgeJoints == 4

(***************************************************************************)
(* The inputs the calls are drawn from.                                    *)
(***************************************************************************)
\* slope faces, <<strike, dip>>
Slopes == {<<320, 70>>}

\* joint planes, <<strike, dip>>
JointPlanes == {<<295, 50>>, <<340, 55>>, <<135, 65>>, <<190, 80>>}

\* the joint planes of the calls of SpecWedge
WedgePlanes == {<<295, 50>>, <<340, 55>>, <<135, 65>>}

\* friction angles
Frictions == {30, 60}

(***************************************************************************)
(* Fixed-point trigonometry.                                               *)
(***************************************************************************)
SinTab ==
  << 0, 175, 349, 523, 698, 872, 1045, 1219, 1392, 1564,
     1736, 1908, 2079, 2250, 2419, 2588, 2756, 2924, 3090, 3256,
     3420, 3584, 3746, 3907, 4067, 4226, 4384, 4540, 4695, 4848,
     5000, 5150, 5299, 5446, 5592, 5736, 5878, 6018, 6157, 6293,
     6428, 6561, 6691, 6820, 6947, 7071, 7193, 7314, 7431, 7547,
     7660, 7771, 7880, 7986, 8090, 8192, 8290, 8387, 8480, 8572,
     8660, 8746, 8829, 8910, 8988, 9063, 9135, 9205, 9272, 9336,
     9397, 9455, 9511, 9563, 9613, 9659, 9703, 9744, 9781, 9816,
     9848, 9877, 9903, 9925, 9945, 9962, 9976, 9986, 9994, 9998,
     10000 >>

\* sin(90 degrees): the fixed-point unit
Scale == SinTab[91]

\* A float holding NaN.
NaN == -1000000

IsNaN(x) == x = NaN

Abs(x) == IF x < 0 THEN -x ELSE x

\* sin of a whole number of degrees; periodic, so any bearing is accepted
Sin(a) ==
  LET m == a % 360
  IN  IF m <= 90 THEN SinTab[m + 1]
      ELSE IF m <= 180 THEN SinTab[180 - m + 1]
      ELSE IF m <= 270 THEN -SinTab[m - 180 + 1]
      ELSE -SinTab[360 - m + 1]

Cos(a) == Sin(a + 90)

\* x / Scale rounded to the nearest integer
Unscale(x) == (x + Scale \div 2) \div Scale

(***************************************************************************)
(* IEEE comparison: a comparison with NaN is false (evaluate.py compares   *)
(* floats with < and > on lines 26, 56 and 58).                            *)
(***************************************************************************)
\* as written ~(a >= b): true of an unordered pair
FloatLt_Unordered(a, b) == IsNaN(a) \/ IsNaN(b) \/ a < b

FloatLt(a, b) == ~IsNaN(a) /\ ~IsNaN(b) /\ a < b

\* |a - b| on floats: NaN when either is NaN
FloatAbsDiff(a, b) == IF IsNaN(a) \/ IsNaN(b) THEN NaN ELSE Abs(a - b)

(***************************************************************************)
(* Geometry primitives of the stereonet library, from their contracts.     *)
(* A direction is a vector <<north, east, down>> in units of Scale.        *)
(***************************************************************************)
RECURSIVE LeastTrue(_, _, _)
\* least p in lo..hi with P[p], for P monotone (false ... false true ... true)
\* and P[hi] true; by bisection
LeastTrue(P, lo, hi) ==
  IF lo >= hi THEN hi
  ELSE LET mid == (lo + hi) \div 2
       IN  IF P[mid] THEN LeastTrue(P, lo, mid) ELSE LeastTrue(P, mid + 1, hi)

\* st.line(plunge, bearing): the direction of a line
line(plunge, bearing) ==
  IF IsNaN(plunge) \/ IsNaN(bearing) THEN <<NaN, NaN, NaN>>
  ELSE << Unscale(Cos(plunge) * Cos(bearing)),
          Unscale(Cos(plunge) * Sin(bearing)),
          Sin(plunge) >>

\* np.degrees(st.angular_distance(a, b, False)): the angle between two
\* directions, in 0..180, as the whole degrees it has reached (its floor), so
\* that ang_dist < cangle is exact for a whole-degree cangle
angular_distance(a, b) ==
  IF IsNaN(a[1]) \/ IsNaN(b[1]) THEN NaN
  ELSE LET dot == Unscale(a[1] * b[1] + a[2] * b[2] + a[3] * b[3])
           \* cos is decreasing on 0..180: the floor of arccos(dot) is one below
           \* the least d with cos(d) < dot
           below == [d \in 0..181 |-> d = 181 \/ Cos(d) < dot]
       IN  LeastTrue(below, 1, 181) - 1

\* st.pole2plunge_bearing(strike, dip): the pole of a plane; the bearing is
\* strike - 90, brought above 0 by one turn when negative
pole2plunge_bearing(strike, dip) ==
  LET bearing == strike - 90
  IN  [plunge |-> 90 - dip,
       bearing |-> IF bearing < 0 THEN bearing + 360 ELSE bearing]

\* the apparent dip, in whole degrees rounded up, of a plane of dip `dip'
\* along a direction whose sine against the strike is sn > 0 (units of Scale)
ApparentDip(dip, sn) ==
  LET t == Unscale(Sin(dip) * sn)
      reached == [p \in 0..90 |-> Sin(p) * Cos(dip) >= t * Cos(p)]
  IN  LeastTrue(reached, 0, 90)

\* st.azimuth2rake, st.rake and st.geographic2plunge_bearing in sequence
\* (evaluate.py, lines 51 to 54): the line of the plane (strike, dip) that lies
\* in the vertical plane of azimuth lbearing, as the plunge and bearing of its
\* downward end, the bearing in [0, 360)
rake_line(strike, dip, lbearing) ==
  IF IsNaN(strike) \/ IsNaN(dip) \/ IsNaN(lbearing)
  THEN [plunge |-> NaN, bearing |-> NaN]
  ELSE LET sn == Sin(lbearing - strike)
       IN  IF sn = 0 /\ Cos(dip) = 0
           THEN [plunge |-> NaN, bearing |-> NaN]
           ELSE IF sn >= 0
           THEN [plunge |-> ApparentDip(dip, sn), bearing |-> lbearing % 360]
           ELSE [plunge |-> ApparentDip(dip, -sn),
                 bearing |-> (lbearing + 180) % 360]

\* the normal of a plane: the direction of its pole
Normal(strike, dip) ==
  LET p == pole2plunge_bearing(strike, dip) IN line(p.plunge, p.bearing)

\* the angle in 0..90, in whole degrees rounded up, whose tangent is opp / adj,
\* for opp >= 0 and adj >= 0 not both 0
ArcTan(opp, adj) ==
  LET reached == [t \in 0..90 |-> opp * Cos(t) <= adj * Sin(t)]
  IN  LeastTrue(reached, 0, 90)

\* the square root, rounded up, of a natural number below Scale * Scale * 4
Sqrt(q) ==
  LET reached == [r \in 0..(2 * Scale) |-> r * r >= q]
  IN  LeastTrue(reached, 0, 2 * Scale)

\* the cross product of two directions, in units of Scale
Cross(a, b) ==
  << Unscale(a[2] * b[3] - a[3] * b[2]),
     Unscale(a[3] * b[1] - a[1] * b[3]),
     Unscale(a[1] * b[2] - a[2] * b[1]) >>

\* the downward end of a direction
Downward(v) == IF v[3] < 0 THEN <<-v[1], -v[2], -v[3]>> ELSE v

\* the bearing in [0, 360) of the horizontal direction <<x, y>>
BearingOf(x, y) ==
  LET t == ArcTan(Abs(y), Abs(x))
  IN  IF x >= 0 /\ y >= 0 THEN t
      ELSE IF x < 0 /\ y >= 0 THEN 180 - t
      ELSE IF x < 0 THEN 180 + t
      ELSE (360 - t) % 360

\* st.geographic2plunge_bearing of a downward direction; NaN for the null vector
PlungeBearingOf(v) ==
  IF v = <<0, 0, 0>>
  THEN [plunge |-> NaN, bearing |-> NaN]
  ELSE [plunge |-> ArcTan(v[3], Sqrt(v[1] * v[1] + v[2] * v[2])),
        bearing |-> BearingOf(v[1], v[2])]

\* st.plane_intersection(strike1, dip1, strike2, dip2): the line two planes
\* share, as the plunge and bearing (to within a degree) of its downward end;
\* NaN for parallel planes, whose normals have the cross product 0
IntersectionOf(strike1, dip1, strike2, dip2) ==
  PlungeBearingOf(Downward(Cross(Normal(strike1, dip1), Normal(strike2, dip2))))

\* the intersections of the joint planes; the comparison makes the model
\* checker tabulate the function once instead of at every use
IntersectionTab ==
  LET tab == [pq \in JointPlanes \X JointPlanes |->
                IntersectionOf(pq[1][1], pq[1][2], pq[2][1], pq[2][2])]
  IN  CHOOSE t \in {tab} : t = tab

plane_intersection(strike1, dip1, strike2, dip2) ==
  IntersectionTab[<<<<strike1, dip1>>, <<strike2, dip2>>>>]

(***************************************************************************)
(* The envelope provider (envelopes.py), from its contract: a pure         *)
(* function of the slope and friction parameters, array-valued over an     *)
(* array of friction angles.                                               *)
(***************************************************************************)
\* the cone of poles of planes that daylight on the slope face
planar_daylight(sstr, sdip) ==
  LET p == pole2plunge_bearing(sstr, sdip)
  IN  [plunge |-> 45 + p.plunge \div 2, bearing |-> p.bearing,
       angle |-> 45 - p.plunge \div 2]

\* one friction cone about the vertical per friction angle
planar_friction(friction) ==
  [a \in 1..Len(friction) |-> [plunge |-> 90, bearing |-> 0, angle |-> friction[a]]]

\* the slope face as a great circle
wedge_daylight(sstr, sdip) == [strike |-> sstr, dip |-> sdip]

\* one cone of lines steeper than the friction angle per friction angle
wedge_friction(friction) ==
  [a \in 1..Len(friction) |->
     [plunge |-> 90, bearing |-> 0, angle |-> 90 - friction[a]]]

\* the lateral limits of toppling: a cone about the strike of the slope
toppling_slipLimits(sstr, sdip) == [plunge |-> 0, bearing |-> sstr, angle |-> 60]

\* great circles striking with the slope: one strike, one dip per friction angle
toppling_friction(sstr, sdip, friction) ==
  [strike |-> <<sstr>>,
   dip |-> [a \in 1..Len(friction) |-> sdip - friction[a]]]

(***************************************************************************)
(* Containment predicates (evaluate.py).                                   *)
(***************************************************************************)
line_in_cone(cplunge, cbearing, cangle, lplunge, lbearing) ==
  LET ang_dist == angular_distance(line(cplunge, cbearing), line(lplunge, lbearing))
  IN  FloatLt(ang_dist, cangle)

line_above_plane(strike, dip, lplunge, lbearing) ==
  LET r == rake_line(strike, dip, lbearing)
      rplunge == r.plunge
      rbearing == r.bearing
      smallerplunge == FloatLt(lplunge, rplunge)
      \* np.abs(rbearing-lbearing)<0.001, in thousandths of a degree
      samebearing == FloatLt(IF IsNaN(FloatAbsDiff(rbearing, lbearing)) THEN NaN
                             ELSE 1000 * FloatAbsDiff(rbearing, lbearing), 1)
  IN  smallerplunge /\ samebearing

(***************************************************************************)
(* Python and numpy values.                                                *)
(***************************************************************************)
\* a function's outcome: the mask it returns, or the exception it raises
Return(mask) == [exc |-> "none", mask |-> mask]
Raise(exc) == [exc |-> exc, mask |-> <<>>]

Scalar(f) == [kind |-> "scalar", val |-> f]
Array(fs) == [kind |-> "array", val |-> fs]

\* lines 92 to 97: len(jfriction) raises for a scalar, which is then multiplied
\* into np.ones(len(jstr)); a sequence is kept as it is, whatever its length
friction_array(jfriction, n) ==
  IF jfriction.kind = "scalar" THEN [a \in 1..n |-> jfriction.val]
  ELSE jfriction.val

\* ~ on a numpy boolean: the logical negation
Tilde_Dropped(b) == b

Tilde(b) == ~b

\* the bearing of the second slip-limit cone (line 225)
tsl_bearing2_Same(tsl_bearing) == tsl_bearing

tsl_bearing2(tsl_bearing) == tsl_bearing + 180

(***************************************************************************)
(* planarFailure (evaluate.py, lines 62 to 115).                           *)
(***************************************************************************)
\* line 107: whether the pole of joint a is in the daylight cone
inDaylightAt(pde, jpole, a) ==
  line_in_cone(pde.plunge, pde.bearing, pde.angle, jpole[a].plunge, jpole[a].bearing)

\* line 108: whether the pole of joint a is outside its own friction cone
outFrictionAt_First(pfe, jpole, a) ==
  Tilde(line_in_cone(pfe[1].plunge, pfe[1].bearing, pfe[1].angle,
                     jpole[a].plunge, jpole[a].bearing))

outFrictionAt(pfe, jpole, a) ==
  Tilde(line_in_cone(pfe[a].plunge, pfe[a].bearing, pfe[a].angle,
                     jpole[a].plunge, jpole[a].bearing))

planarFailure(sstr, sdip, jfriction, jstr, jdip, to_plot) ==
  LET n == Len(jstr)
      uniformFriction == jfriction.kind = "scalar"
      fr == friction_array(jfriction, n)
      pde == planar_daylight(sstr, sdip)
      pfe == planar_friction(fr)
      jpole == [a \in 1..n |-> pole2plunge_bearing(jstr[a], jdip[a])]
      inDaylight == [a \in 1..n |-> inDaylightAt(pde, jpole, a)]
      outFriction == [a \in 1..n |-> outFrictionAt(pfe, jpole, a)]
      planarFail == [a \in 1..n |-> (inDaylight[a] = TRUE) /\ (outFriction[a] = TRUE)]
  IN  IF n > Len(pfe) THEN Raise("IndexError")            \* pfe_plunge[a]
      ELSE IF uniformFriction /\ to_plot /\ Len(fr) = 0
      THEN Raise("IndexError")                             \* jfriction[0]
      ELSE Return(planarFail)

(***************************************************************************)
(* wedgeFailure (evaluate.py, lines 117 to 175).                           *)
(***************************************************************************)
\* the number of pairs (i, j), i < j < n
Choose2(n) == (n * (n - 1)) \div 2

\* the 0-based position of the pair (i, j), i < j, among the pairs of range(n)
\* in lexicographic order: the pairs that start below i come first
PairRank(n, i, j) == (i * (2 * n - i - 1)) \div 2 + (j - i - 1)

PairAt_Colex(n, k) ==
  CHOOSE p \in (0..(n - 1)) \X (0..(n - 1)) :
    p[1] < p[2] /\ Choose2(p[2]) + p[1] = k - 1

\* the k-th pair, k in 1..Choose2(n), as 0-based indices
PairAt(n, k) ==
  CHOOSE p \in (0..(n - 1)) \X (0..(n - 1)) :
    p[1] < p[2] /\ PairRank(n, p[1], p[2]) = k - 1

\* list(itercomb(range(n), 2)) (line 156): the pairs in lexicographic order
combinations2(n) == [k \in 1..Choose2(n) |-> PairAt(n, k)]

\* the friction of a pair (line 159): the smaller of its joints' frictions
pair_friction_First(fi, fj) == fi

pair_friction(fi, fj) == IF fi < fj THEN fi ELSE fj

wedgeFailure(sstr, sdip, jfriction, jstr, jdip, to_plot) ==
  LET n == Len(jstr)
      uniformFriction == jfriction.kind = "scalar"
      fr == friction_array(jfriction, n)
      c == combinations2(n)
      np == Len(c)
      wl == [a \in 1..np |->
          plane_intersection(jstr[c[a][1] + 1], jdip[c[a][1] + 1],
                             jstr[c[a][2] + 1], jdip[c[a][2] + 1])]
      wl_friction == [a \in 1..np |->
          pair_friction(fr[c[a][1] + 1], fr[c[a][2] + 1])]
      wde == wedge_daylight(sstr, sdip)
      wfe == wedge_friction(wl_friction)
      convexDaylight == [a \in 1..np |->
          line_above_plane(wde.strike, wde.dip, wl[a].plunge, wl[a].bearing)]
      inFriction == [a \in 1..np |->
          line_in_cone(wfe[a].plunge, wfe[a].bearing, wfe[a].angle,
                       wl[a].plunge, wl[a].bearing)]
      wedgeFail == [a \in 1..np |->
          (convexDaylight[a] = TRUE) /\ (inFriction[a] = TRUE)]
  IN  IF np = 0 THEN Raise("IndexError")                  \* c[:,0] of an empty c
      ELSE IF Len(fr) < n THEN Raise("IndexError")        \* jfriction[c[:,1]]
      ELSE Return(wedgeFail)

(***************************************************************************)
(* topplingFailure (evaluate.py, lines 177 to 233).                        *)
(***************************************************************************)
topplingFailure(sstr, sdip, jfriction, jstr, jdip, to_plot) ==
  LET n == Len(jstr)
      uniformFriction == jfriction.kind = "scalar"
      fr == friction_array(jfriction, n)
      tsl == toppling_slipLimits(sstr, sdip)
      tfe == toppling_friction(sstr, sdip, fr)
      jpole == [a \in 1..n |-> pole2plunge_bearing(jstr[a], jdip[a])]
      inSlipLimit1 == [a \in 1..n |->
          Tilde(line_in_cone(tsl.plunge, tsl.bearing, tsl.angle,
                             jpole[a].plunge, jpole[a].bearing))]
      inSlipLimit2 == [a \in 1..n |->
          Tilde(line_in_cone(tsl.plunge, tsl_bearing2(tsl.bearing), tsl.angle,
                             jpole[a].plunge, jpole[a].bearing))]
      convexFriction == [a \in 1..n |->
          line_above_plane(tfe.strike[1], tfe.dip[a],
                           jpole[a].plunge, jpole[a].bearing)]
      topplingFail == [a \in 1..n |->
          (inSlipLimit1[a] = TRUE) /\ (inSlipLimit2[a] = TRUE)
          /\ (convexFriction[a] = TRUE)]
  IN  IF n > Len(tfe.dip) THEN Raise("IndexError")        \* tfe_dip[a]
      ELSE IF uniformFriction /\ to_plot /\ n = 0
      THEN Raise("UnboundLocalError")                      \* jfriction[a], a unset
      ELSE Return(topplingFail)

(***************************************************************************)
(* The state machine: a caller draws the arguments and makes one call.     *)
(***************************************************************************)
SeqsOf(S, n) == [1..n -> S]

\* friction arguments for n joints: a scalar, or an array of n - 1, n or n + 1
FrictionArgs(n) ==
  {Scalar(f) : f \in Frictions}
  \cup {Array(fs) : fs \in UNION {SeqsOf(Frictions, m) :
                                    m \in {k \in {n - 1, n, n + 1} : k >= 0}}}

\* the friction arguments that hold a value per joint
FrictionPerJoint(n) ==
  {Scalar(f) : f \in Frictions} \cup {Array(fs) : fs \in SeqsOf(Frictions, n)}

\* the arguments of a call on n joints; to_plot is read only with a scalar
\* friction (lines 111, 171 and 229), so an array is passed with the default
ArgsFor(planes, frictions, n) ==
  UNION {
    {[sstr |-> s[1], sdip |-> s[2], jfriction |-> f,
      jstr |-> [a \in 1..n |-> j[a][1]],
      jdip |-> [a \in 1..n |-> j[a][2]],
      to_plot |-> t] :
        s \in Slopes, j \in SeqsOf(planes, n),
        t \in IF f.kind = "scalar" THEN BOOLEAN ELSE {TRUE}} :
    f \in frictions}

IsClassifierCall == call \in {"planarFailure", "wedgeFailure", "topplingFailure"}

NoCall == [exc |-> "none", mask |-> <<>>]

Init ==
  /\ \E n \in 0..MaxJoints : args \in ArgsFor(JointPlanes, FrictionArgs(n), n)
  /\ call = "none"
  /\ ret = NoCall

CallPlanarFailure ==
  /\ call = "none"
  /\ "sstr" \in DOMAIN args
  /\ call' = "planarFailure"
  /\ ret' = planarFailure(args.sstr, args.sdip, args.jfriction,
                          args.jstr, args.jdip, args.to_plot)
  /\ UNCHANGED args

CallWedgeFailure ==
  /\ call = "none"
  /\ "sstr" \in DOMAIN args
  /\ call' = "wedgeFailure"
  /\ ret' = wedgeFailure(args.sstr, args.sdip, args.jfriction,
                         args.jstr, args.jdip, args.to_plot)
  /\ UNCHANGED args

CallTopplingFailure ==
  /\ call = "none"
  /\ "sstr" \in DOMAIN args
  /\ call' = "topplingFailure"
  /\ ret' = topplingFailure(args.sstr, args.sdip, args.jfriction,
                            args.jstr, args.jdip, args.to_plot)
  /\ UNCHANGED args

Next == CallPlanarFailure \/ CallWedgeFailure \/ CallTopplingFailure

Spec == Init /\ [][Next]_vars

(***************************************************************************)
(* Calls of wedgeFailure alone, with more joints and a friction value per   *)
(* joint.                                                                  *)
(***************************************************************************)
InitWedge ==
  /\ \E n \in 0..MaxWedgeJoints :
       args \in ArgsFor(WedgePlanes, FrictionPerJoint(n), n)
  /\ call = "none"
  /\ ret = NoCall

SpecWedge == InitWedge /\ [][CallWedgeFailure]_vars

(***************************************************************************)
(* Direct calls of the containment predicates.                             *)
(***************************************************************************)
\* bearings, each with the same bearing one turn below and one turn above
Bearings == {45, 230, 250}
Turns == {-360, 0, 360}

ConeArgs ==
  {[cplunge |-> cp, cbearing |-> cb + ct, cangle |-> ca,
    lplunge |-> lp, lbearing |-> lb + lt] :
      cp \in {0, 55}, cb \in {230}, ct \in Turns, ca \in {35, 60},
      lp \in {10, 35}, lb \in Bearings, lt \in Turns}

PlaneArgs ==
  {[strike |-> st + t, dip |-> dp, lplunge |-> lp, lbearing |-> lb + lt] :
      st \in {320}, t \in Turns, dp \in {40, 70},
      lp \in {10, 25, 80}, lb \in Bearings, lt \in Turns}

InitPredicates ==
  /\ args \in ConeArgs \cup PlaneArgs
  /\ call = "none"
  /\ ret = NoCall

CallLineInCone ==
  /\ call = "none"
  /\ "cangle" \in DOMAIN args
  /\ call' = "line_in_cone"
  /\ ret' = Return(<<line_in_cone(args.cplunge, args.cbearing, args.cangle,
                                  args.lplunge, args.lbearing)>>)
  /\ UNCHANGED args

CallLineAbovePlane ==
  /\ call = "none"
  /\ "strike" \in DOMAIN args
  /\ call' = "line_above_plane"
  /\ ret' = Return(<<line_above_plane(args.strike, args.dip,
                                      args.lplunge, args.lbearing)>>)
  /\ UNCHANGED args

NextPredicates == CallLineInCone \/ CallLineAbovePlane

SpecPredicates == InitPredicates /\ [][NextPredicates]_vars

(***************************************************************************)
(* Properties.                                                             *)
(***************************************************************************)
\* the number of joints of the call
N == Len(args.jstr)

\* the call passes a friction value per joint: a scalar, or one entry each
HasFrictionPerJoint ==
  args.jfriction.kind = "scalar" \/ Len(args.jfriction.val) = N

\* the friction angle of joint j (1-based)
OwnFriction(j) ==
  IF args.jfriction.kind = "scalar" THEN args.jfriction.val
  ELSE args.jfriction.val[j]

\* the pole of joint j
Pole(j) == pole2plunge_bearing(args.jstr[j], args.jdip[j])

Returned == ret.exc = "none"

InPlanarDaylight(j) ==
  LET c == planar_daylight(args.sstr, args.sdip)
  IN  line_in_cone(c.plunge, c.bearing, c.angle, Pole(j).plunge, Pole(j).bearing)

InPlanarFriction(j) ==
  LET c == planar_friction(<<OwnFriction(j)>>)[1]
  IN  line_in_cone(c.plunge, c.bearing, c.angle, Pole(j).plunge, Pole(j).bearing)

\* C1: a call of planarFailure on N >= 1 joints with a friction value per
\* joint returns a mask of N entries, and entry j is true exactly when the pole
\* of joint j is in the planar daylight cone of the slope and is not in the
\* planar friction cone of joint j's own friction angle.
C1_PlanarMask ==
  (call = "planarFailure" /\ N >= 1 /\ HasFrictionPerJoint) =>
     /\ Returned
     /\ Len(ret.mask) = N
     /\ \A j \in 1..N :
          ret.mask[j] <=> (InPlanarDaylight(j) /\ ~InPlanarFriction(j))

\* a planar call in which one joint fails and another daylights but is held
\* by friction
C1_Witness ==
  /\ call = "planarFailure" /\ N >= 2 /\ HasFrictionPerJoint /\ Returned
  /\ \E j \in 1..N : ret.mask[j]
  /\ \E k \in 1..N : InPlanarDaylight(k) /\ InPlanarFriction(k) /\ ~ret.mask[k]

InSlipLimit(j, turn) ==
  LET c == toppling_slipLimits(args.sstr, args.sdip)
  IN  line_in_cone(c.plunge, c.bearing + turn, c.angle,
                   Pole(j).plunge, Pole(j).bearing)

AboveTopplingFriction(j) ==
  LET g == toppling_friction(args.sstr, args.sdip, <<OwnFriction(j)>>)
  IN  line_above_plane(g.strike[1], g.dip[1], Pole(j).plunge, Pole(j).bearing)

\* C2: a call of topplingFailure on N >= 1 joints returns a mask of N entries,
\* and entry j is true exactly when the pole of joint j is not in the slip-limit
\* cone, is not in the slip-limit cone with the bearing plus 180, and is above
\* the friction great circle of the shared strike and joint j's own dip.
C2_TopplingMask ==
  (call = "topplingFailure" /\ N >= 1 /\ HasFrictionPerJoint) =>
     /\ Returned
     /\ Len(ret.mask) = N
     /\ \A j \in 1..N :
          ret.mask[j] <=> /\ ~InSlipLimit(j, 0)
                          /\ ~InSlipLimit(j, 180)
                          /\ AboveTopplingFriction(j)

\* a toppling call in which one joint topples and another is excluded by the
\* second slip-limit cone alone
C2_Witness ==
  /\ call = "topplingFailure" /\ N >= 2 /\ HasFrictionPerJoint /\ Returned
  /\ \E j \in 1..N : ret.mask[j]
  /\ \E k \in 1..N : /\ ~InSlipLimit(k, 0) /\ InSlipLimit(k, 180)
                     /\ AboveTopplingFriction(k) /\ ~ret.mask[k]

\* the pairs i < j of 1..n
Pairs(n) == {p \in (1..n) \X (1..n) : p[1] < p[2]}

\* the place of the pair (i, j) in the lexicographic enumeration of Pairs(n):
\* one more than the number of pairs before it
LexPosition(n, i, j) ==
  1 + Cardinality({p \in Pairs(n) : p[1] < i \/ (p[1] = i /\ p[2] < j)})

Min(a, b) == IF a <= b THEN a ELSE b

\* the verdict on the intersection line of joints i and j under friction f
WedgeVerdict(i, j, f) ==
  LET wl == plane_intersection(args.jstr[i], args.jdip[i], args.jstr[j], args.jdip[j])
      d == wedge_daylight(args.sstr, args.sdip)
      c == wedge_friction(<<f>>)[1]
  IN  /\ line_above_plane(d.strike, d.dip, wl.plunge, wl.bearing)
      /\ line_in_cone(c.plunge, c.bearing, c.angle, wl.plunge, wl.bearing)

\* the friction argument with the entries of joints i and j exchanged
SwapFriction(i, j) ==
  IF args.jfriction.kind = "scalar" THEN args.jfriction
  ELSE Array([a \in 1..Len(args.jfriction.val) |->
                IF a = i THEN args.jfriction.val[j]
                ELSE IF a = j THEN args.jfriction.val[i]
                ELSE args.jfriction.val[a]])

\* C3: in a mask wedgeFailure returns, the entry of the pair (i, j) is true
\* exactly when the pair's intersection line is above the wedge daylight plane
\* and in the wedge friction cone of min(friction[i], friction[j]); exchanging
\* the friction angles of i and j leaves the entry unchanged.
C3_WedgeMinFriction ==
  (call = "wedgeFailure" /\ Returned) =>
     \A p \in Pairs(N) :
        LET k == LexPosition(N, p[1], p[2])
        IN  /\ ret.mask[k] <=>
                 WedgeVerdict(p[1], p[2], Min(OwnFriction(p[1]), OwnFriction(p[2])))
            /\ wedgeFailure(args.sstr, args.sdip, SwapFriction(p[1], p[2]),
                            args.jstr, args.jdip, args.to_plot).mask[k] = ret.mask[k]

\* a wedge call with a failing pair whose two friction angles differ and whose
\* verdict under the larger one is the opposite
C3_Witness ==
  /\ call = "wedgeFailure" /\ Returned
  /\ \E p \in Pairs(N) :
        /\ OwnFriction(p[1]) # OwnFriction(p[2])
        /\ ret.mask[LexPosition(N, p[1], p[2])]
        /\ ~WedgeVerdict(p[1], p[2], IF OwnFriction(p[1]) < OwnFriction(p[2])
                                     THEN OwnFriction(p[2]) ELSE OwnFriction(p[1]))

\* C4 as claimed: for every joint count N >= 0, wedgeFailure returns a mask
\* of exactly N*(N-1)/2 entries, the empty mask for N = 0 and N = 1.
C4_WedgeLength ==
  (call = "wedgeFailure" /\ HasFrictionPerJoint) =>
     Returned /\ Len(ret.mask) = (N * (N - 1)) \div 2

\* the verdict wedgeFailure gives when called on joints i and j alone
PairAlone(i, j) ==
  wedgeFailure(args.sstr, args.sdip, Array(<<OwnFriction(i), OwnFriction(j)>>),
               <<args.jstr[i], args.jstr[j]>>, <<args.jdip[i], args.jdip[j]>>,
               FALSE).mask[1]

C6_MismatchRaises ==
  (IsClassifierCall /\ args.jfriction.kind = "array"
     /\ Len(args.jfriction.val) # N) => ~Returned

\* a sequence without its r-th entry
Without(q, r) == [a \in 1..(Len(q) - 1) |-> IF a < r THEN q[a] ELSE q[a + 1]]

\* the call of wedgeFailure with joint r left out
WedgeWithout(r) ==
  wedgeFailure(args.sstr, args.sdip,
               IF args.jfriction.kind = "scalar" THEN args.jfriction
               ELSE Array(Without(args.jfriction.val, r)),
               Without(args.jstr, r), Without(args.jdip, r), args.to_plot)

SamePlane(i, j) == args.jstr[i] = args.jstr[j] /\ args.jdip[i] = args.jdip[j]

\* the index of joint a once joint r is left out
Shift(a, r) == IF a > r THEN a - 1 ELSE a

\* C7: in a mask wedgeFailure returns, the entry of a pair of coincident
\* planes is false, and with three or more joints every pair that leaves out a
\* joint of the coincident pair has the entry it has when that joint is absent
\* from the call.
C7_ParallelPairExcluded ==
  (call = "wedgeFailure" /\ Returned) =>
     \A p \in Pairs(N) :
        SamePlane(p[1], p[2]) =>
           /\ ~ret.mask[LexPosition(N, p[1], p[2])]
           /\ N >= 3 =>
                \A r \in {p[1], p[2]} :
                   LET without == WedgeWithout(r).mask
                   IN  \A q \in Pairs(N) :
                          (q[1] # r /\ q[2] # r) =>
                             ret.mask[LexPosition(N, q[1], q[2])] =
                               without[LexPosition(N - 1, Shift(q[1], r), Shift(q[2], r))]

\* a wedge call on three or more joints with a coincident pair and a failing pair
C7_Witness ==
  /\ call = "wedgeFailure" /\ Returned /\ N >= 3
  /\ \E p \in Pairs(N) : SamePlane(p[1], p[2])
  /\ \E q \in Pairs(N) : ret.mask[LexPosition(N, q[1], q[2])]

\* C8 as claimed: line_in_cone and line_above_plane give the same verdict
\* when a bearing is replaced by the same bearing a turn lower or higher.
C8_BearingTurns ==
  /\ call = "line_in_cone" =>
       \A t1 \in Turns, t2 \in Turns :
          ret.mask[1] = line_in_cone(args.cplunge, args.cbearing + t1, args.cangle,
                                     args.lplunge, args.lbearing + t2)
  /\ call = "line_above_plane" =>
       \A t \in Turns :
          ret.mask[1] = line_above_plane(args.strike, args.dip,
                                         args.lplunge, args.lbearing + t)

\* the classifier `fn' called on the arguments of the state with the friction f
CallWith(fn, f) ==
  IF fn = "planarFailure"
  THEN planarFailure(args.sstr, args.sdip, f, args.jstr, args.jdip, args.to_plot)
  ELSE IF fn = "wedgeFailure"
  THEN wedgeFailure(args.sstr, args.sdip, f, args.jstr, args.jdip, args.to_plot)
  ELSE topplingFailure(args.sstr, args.sdip, f, args.jstr, args.jdip, args.to_plot)

\* C9 as claimed: a classifier called with a scalar friction f does what it
\* does when called with the sequence of N entries f.
C9_ScalarAsSequence ==
  (IsClassifierCall /\ args.jfriction.kind = "scalar") =>
     ret = CallWith(call, Array([a \in 1..N |-> args.jfriction.val]))

\* the classifier `fn' called on joint j alone
JointAlone(fn, j) ==
  IF fn = "planarFailure"
  THEN planarFailure(args.sstr, args.sdip, Array(<<OwnFriction(j)>>),
                     <<args.jstr[j]>>, <<args.jdip[j]>>, FALSE)
  ELSE topplingFailure(args.sstr, args.sdip, Array(<<OwnFriction(j)>>),
                       <<args.jstr[j]>>, <<args.jdip[j]>>, FALSE)

\* C10: in a mask planarFailure or topplingFailure returns, entry j is the
\* verdict the same function gives on the slope and joint j alone (its strike,
\* dip and friction angle); so two calls that agree on the slope and on joint j
\* agree on entry j, whatever their other joints.
C10_EntryOwnJointOnly ==
  (call \in {"planarFailure", "topplingFailure"} /\ Returned) =>
     \A j \in 1..N : ret.mask[j] = JointAlone(call, j).mask[1]

\* a call on joints of different friction angles whose verdicts differ
C10_Witness ==
  /\ call \in {"planarFailure", "topplingFailure"} /\ Returned /\ N >= 2
  /\ \E j \in 1..N, k \in 1..N :
        /\ OwnFriction(j) # OwnFriction(k)
        /\ ret.mask[j] /\ ~ret.mask[k]
        /\ args.jstr[j] = args.jstr[k] /\ args.jdip[j] = args.jdip[k]

=============================================================================
